---- MODULE Spec2Model ----
(***************************************************************************)
(* Model of the Ryu controller applications of this repository:            *)
(*   ryu_app_learning_switch.py  LearningSwitch13   (L2 learning)          *)
(*   ryu_app_firewall.py         SimpleFirewall     (priority-100 drops)   *)
(*   ryu_app_load_balancer.py    SimpleLoadBalancer (VIP, proxy ARP, NAT)  *)
(*   ryu_app_telemetry.py        Telemetry13        (port/flow statistics) *)
(* All four run in one ryu-manager (ryu_app_telemetry.py, USAGE), so every *)
(* OpenFlow event is handed to every application that subscribes to it.    *)
(* The switch side (flow table, lookup by priority, idle timeout) is the   *)
(* OpenFlow 1.3 behaviour the applications program against; a FlowMod or   *)
(* PacketOut handed to send_msg takes effect in the step that sends it.    *)
(***************************************************************************)
EXTENDS Integers, Sequences, FiniteSets, TLC

(* ---------------------------------------------------------------------- *)
(* Bounds of the model                                                     *)
(* ---------------------------------------------------------------------- *)
\* VIP decisions (calls of _choose_server) explored
MaxDecisions == 4
\* the telemetry clock runs from 0 to MaxTime (seconds)
MaxTime == 3
\* sessions (connections) one datapath id opens in a run
MaxSessions == 2

Dpids == {1, 2}
Ports == {1, 2}

(* ---------------------------------------------------------------------- *)
(* OpenFlow 1.3 / packet library constants used by the source              *)
(* (32-bit reserved port numbers are written as signed integers)           *)
(* ---------------------------------------------------------------------- *)
OFPP_MAX == -256
OFPP_NORMAL == -6
OFPP_FLOOD == -5
OFPP_CONTROLLER == -3
OFPP_LOCAL == -2
OFP_NO_BUFFER == -1
OFPCML_NO_BUFFER == 65535
OFPCML_MAX == 65509
ETH_TYPE_IP == 2048
ETH_TYPE_ARP == 2054
ETH_TYPE_LLDP == 35020
ETH_TYPE_IPV6 == 34525
ARP_REQUEST == 1
ARP_REPLY == 2
IPPROTO_ICMP == 1
IPPROTO_TCP == 6

\* priorities and timeouts the applications pass to OFPFlowMod
TABLE_MISS_PRIORITY == 0
LEARNED_PRIORITY == 1
VIP_PRIORITY == 10
FIREWALL_PRIORITY == 100
LB_IDLE_TIMEOUT == 30
LB_HARD_TIMEOUT == 0

(* ---------------------------------------------------------------------- *)
(* Addresses.  A MAC is its six octets; an IP is its dotted text.          *)
(* ---------------------------------------------------------------------- *)
NoMac == <<>>
MacA == <<0, 0, 0, 0, 0, 1>>
MacB == <<0, 0, 0, 0, 0, 2>>
MacC == <<0, 0, 0, 0, 0, 3>>
MacBcast == <<255, 255, 255, 255, 255, 255>>
MacV6Mcast == <<51, 51, 0, 0, 0, 1>>
MacLldp == <<1, 128, 194, 0, 0, 14>>
\* 01:80:c2:00:00:00, the bridge group address spanning-tree BPDUs are sent to
MacStp == <<1, 128, 194, 0, 0, 0>>
IpA == "10.0.2.1"
IpB == "10.0.1.2"
\* host 1 of subnet 1
IpC == "10.0.1.1"
\* the hosts of subnet 1 the backend pool stands for, in pool order
BackendHostIp == <<IpC, IpB>>

VIP_IP == "10.0.1.100"
VIP_MAC == <<0, 170, 187, 204, 221, 238>>
\* a pool both of whose entries name an address a packet can carry
ServerPoolAddressable ==
    << [ip |-> "10.0.1.1", mac |-> NoMac],
       [ip |-> "10.0.1.2", mac |-> NoMac] >>
\* SimpleLoadBalancer.SERVER_POOL as the class body leaves it
SERVER_POOL_INIT ==
    << [ip |-> "10.0ping1.1", mac |-> NoMac],
       [ip |-> "10.0.1.2", mac |-> NoMac] >>

(* ---------------------------------------------------------------------- *)
(* Python dicts: a dict is the set of its <<key, value>> items             *)
(* ---------------------------------------------------------------------- *)
DictHas(t, k) == \E e \in t : e[1] = k
DictGet(t, k, none) == IF DictHas(t, k) THEN (CHOOSE e \in t : e[1] = k)[2] ELSE none
DictSetDup(t, k, v) == t \cup {<<k, v>>}
DictSet(t, k, v) == {e \in t : e[1] # k} \cup {<<k, v>>}

(* ---------------------------------------------------------------------- *)
(* Packets as ryu.lib.packet parses them                                   *)
(* ---------------------------------------------------------------------- *)
NoIp == [present |-> FALSE, src |-> "", dst |-> "", proto |-> 0]
NoArp == [present |-> FALSE, opcode |-> 0, src_mac |-> NoMac, src_ip |-> "",
          dst_mac |-> NoMac, dst_ip |-> ""]
Ipv4(s, d, p) == [present |-> TRUE, src |-> s, dst |-> d, proto |-> p]
Arp(op, smac, sip, dmac, dip) ==
    [present |-> TRUE, opcode |-> op, src_mac |-> smac, src_ip |-> sip,
     dst_mac |-> dmac, dst_ip |-> dip]
\* eth: packet.Packet(msg.data) found an Ethernet header
Frame(t, s, d, i, a) ==
    [eth |-> TRUE, ethertype |-> t, src |-> s, dst |-> d, ip4 |-> i, arp |-> a]

PktAtoB == Frame(ETH_TYPE_IP, MacA, MacB, Ipv4(IpA, IpB, IPPROTO_TCP), NoArp)
PktBtoA == Frame(ETH_TYPE_IP, MacB, MacA, Ipv4(IpB, IpA, IPPROTO_TCP), NoArp)
PktAtoVip == Frame(ETH_TYPE_IP, MacA, VIP_MAC, Ipv4(IpA, VIP_IP, IPPROTO_TCP), NoArp)
PktPingVip == Frame(ETH_TYPE_IP, MacA, VIP_MAC, Ipv4(IpA, VIP_IP, IPPROTO_ICMP), NoArp)
PktArpVip == Frame(ETH_TYPE_ARP, MacA, MacBcast, NoIp,
                   Arp(ARP_REQUEST, MacA, IpA, NoMac, VIP_IP))
PktArpB == Frame(ETH_TYPE_ARP, MacB, MacA, NoIp,
                 Arp(ARP_REPLY, MacB, IpB, MacA, IpA))
\* host C is a client of the VIP too
PktCtoVip == Frame(ETH_TYPE_IP, MacC, VIP_MAC, Ipv4(IpC, VIP_IP, IPPROTO_TCP), NoArp)
PktLldp == Frame(ETH_TYPE_LLDP, MacB, MacLldp, NoIp, NoArp)
PktV6 == Frame(ETH_TYPE_IPV6, MacB, MacV6Mcast, NoIp, NoArp)
\* a spanning-tree BPDU: an 802.3 frame (the type field is its length) to the
\* bridge group address
PktStp == Frame(38, MacB, MacStp, NoIp, NoArp)
NoPkt == Frame(0, NoMac, NoMac, NoIp, NoArp)
\* a payload too short for an Ethernet header: the parser yields no protocol
PktTruncated == [NoPkt EXCEPT !.eth = FALSE]

Packets == {PktAtoB, PktBtoA, PktAtoVip, PktPingVip,
            PktArpVip, PktArpB, PktLldp, PktV6, PktStp, PktTruncated, PktCtoVip}

\* The traffic of the modelled network, as <<dpid, packet, ingress port>>.
\* Switch 1: client A on port 1 (it is also seen on port 2 after a move),
\* backend B and host C on port 2.  Switch 2: an uplink on port 1 that carries traffic of A.
Arrivals ==
    ({1} \X {PktAtoB, PktAtoVip, PktPingVip, PktArpVip, PktTruncated} \X {1})
    \cup ({1} \X {PktAtoB, PktAtoVip, PktBtoA, PktArpB, PktLldp, PktV6, PktStp,
                   PktCtoVip} \X {2})
    \cup ({2} \X {PktAtoVip, PktAtoB} \X {1})

(* ---------------------------------------------------------------------- *)
(* Firewall configuration: the list json.load returns, each rule the set   *)
(* of its <<field, value>> items (SimpleFirewall._load_rules)              *)
(* ---------------------------------------------------------------------- *)
RuleIcmp == {<<"eth_type", ETH_TYPE_IP>>, <<"ip_proto", IPPROTO_ICMP>>}
RuleBogus == {<<"eth_type", ETH_TYPE_IP>>, <<"tcp_port", 22>>}
RuleHostToHost == {<<"eth_type", ETH_TYPE_IP>>, <<"ipv4_src", IpB>>, <<"ipv4_dst", IpA>>}
RulesDefault == <<>>
RulesFile == <<RuleIcmp, RuleBogus, RuleHostToHost>>
RuleSets == {RulesDefault, RulesFile}

\* the OXM field names OFPMatch accepts, as far as the model's rules use them
OxmFields == {"in_port", "eth_type", "eth_src", "eth_dst", "ip_proto",
              "ipv4_src", "ipv4_dst", "tcp_src", "tcp_dst"}

VARIABLES
    drop_rules,     \* SimpleFirewall.drop_rules
    conn,           \* per dpid: "down" or "main" (the datapath's dispatcher state)
    flowTable,      \* per dpid: the switch's flow table
    mac_to_port,    \* LearningSwitch13.mac_to_port
    rr_index,       \* SimpleLoadBalancer.rr_index
    ip2mac,         \* SimpleLoadBalancer.ip2mac
    SERVER_POOL,    \* SimpleLoadBalancer.SERVER_POOL (the 'mac' fields are filled in)
    datapaths,      \* Telemetry13.datapaths
    prev_port,      \* Telemetry13.prev_port
    clock,          \* time.time(), in whole seconds
    sampled,        \* <<dpid, port, "cur">>: sampled in the dpid's current session;
                    \* <<dpid, port, "old">>: sampled in an earlier session
    ev,             \* the event handled by the last step
    sent,           \* the messages the applications sent while handling it
    chosen,         \* the pool indices _choose_server has returned, oldest first
    monitor_alive,  \* Telemetry13.monitor_thread is still in its loop
    sessions        \* per dpid: the number of sessions joined so far and those
                    \* of them that have not left

vars == <<drop_rules, conn, flowTable, mac_to_port, rr_index, ip2mac,
          SERVER_POOL, datapaths, prev_port, clock, sampled, ev, sent, chosen,
          monitor_alive, sessions>>

(* ---------------------------------------------------------------------- *)
(* OpenFlow messages and the switch side of the control channel            *)
(* ---------------------------------------------------------------------- *)
OutputAction(port, max_len) == [type |-> "output", port |-> port, max_len |-> max_len]
\* parser.OFPActionOutput(port): max_len defaults to OFPCML_MAX
OFPActionOutput(port) == OutputAction(port, OFPCML_MAX)
OFPActionSetField(f, v) == [type |-> "set_field", field |-> f, value |-> v]

\* parser.OFPFlowMod(...); kind names the call site that built it
OFPFlowMod(kind, priority, match, inst, actions, idle_timeout, hard_timeout, buffer_id) ==
    [kind |-> kind, priority |-> priority, match |-> match, inst |-> inst,
     actions |-> actions, idle_timeout |-> idle_timeout,
     hard_timeout |-> hard_timeout, buffer_id |-> buffer_id]

OFPPacketOut(buffer_id, in_port, actions, data) ==
    [buffer_id |-> buffer_id, in_port |-> in_port, actions |-> actions, data |-> data]

\* a message an application handed to datapath.send_msg
FlowModMsg(app, mod) == [app |-> app, type |-> "flow_mod", mod |-> mod]
PacketOutMsg(app, out) == [app |-> app, type |-> "packet_out", out |-> out]

\* the flow entry a FlowMod leaves in the table
EntryOf(mod) ==
    [kind |-> mod.kind, priority |-> mod.priority, match |-> mod.match,
     inst |-> mod.inst, actions |-> mod.actions,
     idle_timeout |-> mod.idle_timeout, hard_timeout |-> mod.hard_timeout]

SwitchAddDup(table, mod) == table \cup {EntryOf(mod)}
\* OFPFC_ADD: an entry with the same match and priority is replaced
SwitchAdd(table, mod) ==
    {r \in table : ~(r.match = mod.match /\ r.priority = mod.priority)} \cup {EntryOf(mod)}

RECURSIVE ApplyMsgs(_, _)
\* the switch applies the FlowMods of msgs in the order they were sent
ApplyMsgs(table, msgs) ==
    IF msgs = <<>> THEN table
    ELSE LET m == Head(msgs)
         IN ApplyMsgs(IF m.type = "flow_mod" THEN SwitchAdd(table, m.mod) ELSE table,
                      Tail(msgs))

\* the value of an OXM field in a packet arriving on in_port
FieldOf(pkt, in_port, f) ==
    CASE f = "in_port" -> in_port
      [] f = "eth_type" -> pkt.ethertype
      [] f = "eth_src" -> pkt.src
      [] f = "eth_dst" -> pkt.dst
      [] f = "ip_proto" -> IF pkt.ip4.present THEN pkt.ip4.proto ELSE -1
      [] f = "ipv4_src" -> pkt.ip4.src
      [] f = "ipv4_dst" -> pkt.ip4.dst
      [] OTHER -> -1

Matches(match, pkt, in_port) ==
    \A item \in match : FieldOf(pkt, in_port, item[1]) = item[2]

\* the entries a packet may hit: the matching entries of highest priority
BestEntries(table, pkt, in_port) ==
    LET hits == {r \in table : Matches(r.match, pkt, in_port)}
    IN {r \in hits : \A q \in hits : q.priority <= r.priority}

ToController(entry) ==
    \E i \in 1..Len(entry.actions) :
        /\ entry.actions[i].type = "output"
        /\ entry.actions[i].port = OFPP_CONTROLLER

\* buffer_id of the PacketIn an entry produces: OFPCML_NO_BUFFER sends the
\* whole packet and buffers nothing
BufferIdOf(entry) ==
    IF \E i \in 1..Len(entry.actions) :
           /\ entry.actions[i].type = "output"
           /\ entry.actions[i].port = OFPP_CONTROLLER
           /\ entry.actions[i].max_len = OFPCML_NO_BUFFER
    THEN OFP_NO_BUFFER
    ELSE 1

(* ---------------------------------------------------------------------- *)
(* ryu_app_firewall.py                                                     *)
(* ---------------------------------------------------------------------- *)
\* parser.OFPMatch(**match_kwargs) raises on a field name it does not know
OFPMatchRaises(match_kwargs) == \E item \in match_kwargs : item[1] \notin OxmFields

FirewallFlowModLow(match) ==
    OFPFlowMod("firewall", LEARNED_PRIORITY, match, "CLEAR_ACTIONS", <<>>, 0, 0, OFP_NO_BUFFER)
\* the drop FlowMod of one rule: priority 100, CLEAR_ACTIONS, no actions
FirewallFlowMod(match) ==
    OFPFlowMod("firewall", FIREWALL_PRIORITY, match, "CLEAR_ACTIONS", <<>>, 0, 0, OFP_NO_BUFFER)

RECURSIVE FirewallInstallAbort(_, _)
FirewallInstallAbort(rules, i) ==
    IF i > Len(rules) THEN <<>>
    ELSE IF OFPMatchRaises(rules[i]) THEN <<>>
    ELSE <<FlowModMsg("firewall", FirewallFlowMod(rules[i]))>> \o FirewallInstallAbort(rules, i + 1)

RECURSIVE FirewallInstall(_, _)
\* the loop of SimpleFirewall.switch_features_handler from rule i on: a rule
\* whose match cannot be built is logged and skipped
FirewallInstall(rules, i) ==
    IF i > Len(rules) THEN <<>>
    ELSE IF OFPMatchRaises(rules[i]) THEN FirewallInstall(rules, i + 1)
    ELSE <<FlowModMsg("firewall", FirewallFlowMod(rules[i]))>> \o FirewallInstall(rules, i + 1)

FirewallSwitchFeatures(rules) == FirewallInstall(rules, 1)

(* ---------------------------------------------------------------------- *)
(* ryu_app_learning_switch.py                                              *)
(* ---------------------------------------------------------------------- *)
\* LearningSwitch13.add_flow: the FlowMod carries buffer_id only when the
\* packet is buffered on the switch
add_flow(kind, priority, match, actions, buffer_id) ==
    IF buffer_id # OFP_NO_BUFFER
    THEN FlowModMsg("learning", OFPFlowMod(kind, priority, match, "APPLY_ACTIONS",
                                           actions, 0, 0, buffer_id))
    ELSE FlowModMsg("learning", OFPFlowMod(kind, priority, match, "APPLY_ACTIONS",
                                           actions, 0, 0, OFP_NO_BUFFER))

LearningSwitchFeaturesNone == <<>>
\* LearningSwitch13.switch_features_handler: the table-miss entry
LearningSwitchFeatures ==
    <<add_flow("table_miss", TABLE_MISS_PRIORITY, {},
               <<OutputAction(OFPP_CONTROLLER, OFPCML_NO_BUFFER)>>, OFP_NO_BUFFER)>>

GetEthernetNeverRaises(pkt) == FALSE
\* eth = pkt.get_protocols(ethernet.ethernet)[0] raises IndexError when the
\* payload holds no Ethernet header; the handler ends there
GetEthernetRaises(pkt) == ~pkt.eth

\* eth.dst.startswith('33:33:')
StartsWith3333(mac) == Len(mac) >= 2 /\ mac[1] = 51 /\ mac[2] = 51

LsIgnores(pkt) == pkt.ethertype = ETH_TYPE_LLDP \/ StartsWith3333(pkt.dst)

\* self.mac_to_port[dpid][src] = in_port
LearnDup(table, src, in_port) == DictSetDup(table, src, in_port)
LearnNothing(table, src, in_port) == table
Learn(table, src, in_port) == DictSet(table, src, in_port)

LearnedFlowModHigh(dst, actions, buffer_id) ==
    add_flow("learned", FIREWALL_PRIORITY, {<<"eth_dst", dst>>}, actions, buffer_id)
\* self.add_flow(datapath, 1, OFPMatch(eth_dst=dst), actions, buffer_id=msg.buffer_id)
LearnedFlowMod(dst, actions, buffer_id) ==
    add_flow("learned", LEARNED_PRIORITY, {<<"eth_dst", dst>>}, actions, buffer_id)

TableShared(m2p_all, dpid) == UNION {m2p_all[x] : x \in DOMAIN m2p_all}
\* self.mac_to_port.setdefault(dpid, {}); self.mac_to_port[dpid]
TableOf(m2p_all, dpid) == m2p_all[dpid]

\* LearningSwitch13._packet_in_handler on (pkt, in_port, buffer_id) with the
\* dpid's table m2p: the table afterwards and the messages sent
LsPacketIn(pkt, in_port, buffer_id, m2p) ==
    IF GetEthernetRaises(pkt) THEN [m2p |-> m2p, msgs |-> <<>>]
    ELSE IF LsIgnores(pkt) THEN [m2p |-> m2p, msgs |-> <<>>]
    ELSE LET t == Learn(m2p, pkt.src, in_port)
             out_port == IF DictHas(t, pkt.dst) THEN DictGet(t, pkt.dst, 0) ELSE OFPP_FLOOD
             actions == <<OFPActionOutput(out_port)>>
         IN [m2p |-> t,
             msgs |-> IF out_port # OFPP_FLOOD
                      THEN <<LearnedFlowMod(pkt.dst, actions, buffer_id)>>
                      ELSE <<PacketOutMsg("learning",
                                OFPPacketOut(buffer_id, in_port, actions, pkt))>>]

(* ---------------------------------------------------------------------- *)
(* ryu_app_load_balancer.py                                                *)
(* ---------------------------------------------------------------------- *)
ChooseServerStuck(rr, pool) == [index |-> rr, rr |-> rr]
ChooseServerNoWrap(rr, pool) ==
    [index |-> rr, rr |-> IF rr + 1 < Len(pool) THEN rr + 1 ELSE rr]
\* SimpleLoadBalancer._choose_server: the index returned (0-based, as in the
\* source) and the pointer afterwards
ChooseServer(rr, pool) == [index |-> rr, rr |-> (rr + 1) % Len(pool)]

LbAddFlowPermanent(kind, priority, match, actions) ==
    FlowModMsg("lb", OFPFlowMod(kind, priority, match, "APPLY_ACTIONS", actions,
                                0, 0, OFP_NO_BUFFER))
\* SimpleLoadBalancer._add_flow (idle_timeout=30, hard_timeout=0 by default)
LbAddFlow(kind, priority, match, actions) ==
    FlowModMsg("lb", OFPFlowMod(kind, priority, match, "APPLY_ACTIONS", actions,
                                LB_IDLE_TIMEOUT, LB_HARD_TIMEOUT, OFP_NO_BUFFER))

VipArpReplyEcho(arp_pkt) ==
    Frame(ETH_TYPE_ARP, VIP_MAC, arp_pkt.src_mac, NoIp,
          Arp(ARP_REPLY, arp_pkt.src_mac, VIP_IP, arp_pkt.src_mac, arp_pkt.src_ip))
\* the ARP reply packet_in crafts for a request for the VIP
VipArpReply(arp_pkt) ==
    Frame(ETH_TYPE_ARP, VIP_MAC, arp_pkt.src_mac, NoIp,
          Arp(ARP_REPLY, VIP_MAC, VIP_IP, arp_pkt.src_mac, arp_pkt.src_ip))

\* the ip2mac updates at the head of packet_in (IPv4 source, then ARP sender)
LbLearn(pkt, i2m) ==
    LET i1 == IF pkt.ip4.present /\ pkt.src # NoMac
              THEN DictSet(i2m, pkt.ip4.src, pkt.src) ELSE i2m
    IN IF pkt.arp.present THEN DictSet(i1, pkt.arp.src_ip, pkt.arp.src_mac) ELSE i1

IsVipArpRequest(pkt) ==
    pkt.arp.present /\ pkt.arp.opcode = ARP_REQUEST /\ pkt.arp.dst_ip = VIP_IP

ResolveMacAssumed(server, i2m) == IF server.mac = NoMac THEN MacBcast ELSE server.mac
\* if not server['mac']: server['mac'] = self.ip2mac.get(server['ip'])
ResolveMac(server, i2m) ==
    IF server.mac = NoMac THEN DictGet(i2m, server.ip, NoMac) ELSE server.mac

ActionsNowRaw(server, mac) == <<OFPActionOutput(OFPP_FLOOD)>>
\* actions_now: the rewrite of the forward rule, then output to OFPP_FLOOD
ActionsNow(server, mac) ==
    <<OFPActionSetField("ipv4_dst", server.ip),
      OFPActionSetField("eth_dst", mac),
      OFPActionOutput(OFPP_FLOOD)>>

\* the branch of packet_in for an IPv4 packet to the VIP
LbVipBranch(pkt, in_port, buffer_id, rr, i2m, pool) ==
    LET c == ChooseServer(rr, pool)
        server == pool[c.index + 1]
        mac == ResolveMac(server, i2m)
        pool1 == [pool EXCEPT ![c.index + 1].mac = mac]
        actions_fwd == <<OFPActionSetField("ipv4_dst", server.ip),
                         OFPActionSetField("eth_dst", mac),
                         OFPActionOutput(OFPP_NORMAL)>>
        actions_back == <<OFPActionSetField("ipv4_src", VIP_IP),
                          OFPActionSetField("eth_src", VIP_MAC),
                          OFPActionOutput(in_port)>>
        actions_now == ActionsNow(server, mac)
    IN IF mac = NoMac
       THEN [rr |-> c.rr, i2m |-> i2m, pool |-> pool1, picked |-> <<c.index>>,
             msgs |-> <<PacketOutMsg("lb", OFPPacketOut(buffer_id, in_port,
                                       <<OFPActionOutput(OFPP_FLOOD)>>, pkt))>>]
       ELSE [rr |-> c.rr, i2m |-> i2m, pool |-> pool1, picked |-> <<c.index>>,
             msgs |-> <<LbAddFlow("vip_fwd", VIP_PRIORITY,
                                  {<<"eth_type", ETH_TYPE_IP>>, <<"ipv4_dst", VIP_IP>>},
                                  actions_fwd),
                        LbAddFlow("vip_rev", VIP_PRIORITY,
                                  {<<"eth_type", ETH_TYPE_IP>>, <<"ipv4_src", server.ip>>,
                                   <<"ipv4_dst", pkt.ip4.src>>},
                                  actions_back),
                        PacketOutMsg("lb", OFPPacketOut(buffer_id, in_port,
                                                        actions_now, pkt))>>]

LbPacketInArpAdvances(pkt, in_port, buffer_id, rr, i2m, pool) ==
    LET i2 == LbLearn(pkt, i2m)
    IN IF GetEthernetRaises(pkt)
       THEN [rr |-> rr, i2m |-> i2m, pool |-> pool, picked |-> <<>>, msgs |-> <<>>]
       ELSE IF IsVipArpRequest(pkt)
       THEN [rr |-> ChooseServer(rr, pool).rr, i2m |-> i2, pool |-> pool, picked |-> <<>>,
             msgs |-> <<PacketOutMsg("lb", OFPPacketOut(OFP_NO_BUFFER, OFPP_CONTROLLER,
                                       <<OFPActionOutput(in_port)>>,
                                       VipArpReply(pkt.arp)))>>]
       ELSE IF pkt.ip4.present /\ pkt.ip4.dst = VIP_IP
       THEN LbVipBranch(pkt, in_port, buffer_id, rr, i2, pool)
       ELSE [rr |-> rr, i2m |-> i2, pool |-> pool, picked |-> <<>>, msgs |-> <<>>]
\* SimpleLoadBalancer.packet_in: pointer, cache and pool afterwards, the
\* indices _choose_server returned and the messages sent
LbPacketIn(pkt, in_port, buffer_id, rr, i2m, pool) ==
    LET i2 == LbLearn(pkt, i2m)
    IN IF GetEthernetRaises(pkt)
       THEN [rr |-> rr, i2m |-> i2m, pool |-> pool, picked |-> <<>>, msgs |-> <<>>]
       ELSE IF IsVipArpRequest(pkt)
       THEN [rr |-> rr, i2m |-> i2, pool |-> pool, picked |-> <<>>,
             msgs |-> <<PacketOutMsg("lb", OFPPacketOut(OFP_NO_BUFFER, OFPP_CONTROLLER,
                                       <<OFPActionOutput(in_port)>>,
                                       VipArpReply(pkt.arp)))>>]
       ELSE IF pkt.ip4.present /\ pkt.ip4.dst = VIP_IP
       THEN LbVipBranch(pkt, in_port, buffer_id, rr, i2, pool)
       ELSE [rr |-> rr, i2m |-> i2, pool |-> pool, picked |-> <<>>, msgs |-> <<>>]

(* ---------------------------------------------------------------------- *)
(* ryu_app_telemetry.py: session registry                                  *)
(* ---------------------------------------------------------------------- *)
\* Telemetry13._handler_dp, ev.enter: self.datapaths[dp.id] = dp
HandlerDpEnter(dps, d, dp) == DictSet(dps, d, dp)
\* Telemetry13._handler_dp, leave: self.datapaths.pop(dp.id, None)
HandlerDpLeave(dps, d) == {e \in dps : e[1] # d}
PrevPortKeep(pp, d) == pp
\* Telemetry13._handler_dp, leave: self.prev_port.pop(dp.id, None)
PrevPortPop(pp, d) == {e \in pp : e[1] # d}

\* unsigned a >= b of two 32-bit values written as signed integers
GeU32(a, b) == IF (a < 0) = (b < 0) THEN a >= b ELSE a < 0

\* n / d rounded to the nearest integer, halves to even (d > 0)
RoundDiv(n, d) ==
    LET q == n \div d
        r == n % d
    IN IF 2 * r < d THEN q
       ELSE IF 2 * r > d THEN q + 1
       ELSE IF q % 2 = 0 THEN q ELSE q + 1

RatePerSample(x, dt) == [num |-> x, den |-> IF dt > 0 THEN 1 ELSE 0]
\* x / max(1e-9, dt) as the fraction num / den; for dt <= 0 the divisor is
\* 1e-9, written den = 0
Rate(x, dt) == [num |-> x, den |-> IF dt > 0 THEN dt ELSE 0]
\* bps_rx = bps_tx = pps_rx = pps_tx = 0.0
RateNone == [num |-> 0, den |-> 1]

\* round(rate, 2), in hundredths; a rate over the divisor 1e-9 is num * 10^9
\* and is kept as the factor num (e9)
Round2(rate) ==
    IF rate.den > 0 THEN [hundredths |-> RoundDiv(100 * rate.num, rate.den), e9 |-> 0]
    ELSE [hundredths |-> 0, e9 |-> rate.num]
RateZero == [hundredths |-> 0, e9 |-> 0]

PortStat(port_no, rx_bytes, tx_bytes, rx_packets, tx_packets) ==
    [port_no |-> port_no, rx_bytes |-> rx_bytes, tx_bytes |-> tx_bytes,
     rx_packets |-> rx_packets, tx_packets |-> tx_packets]

\* the rates port_stats_reply_handler computes for one stat; prev is the
\* dpid's dict of previous counters
PortRates(now, stat, prev) ==
    LET has == DictHas(prev, stat.port_no)
        p0 == DictGet(prev, stat.port_no, <<0, 0, 0, 0, 0>>)
        dt == now - p0[1]
    IN [bps_rx |-> IF has THEN Rate(8 * (stat.rx_bytes - p0[2]), dt) ELSE RateNone,
        bps_tx |-> IF has THEN Rate(8 * (stat.tx_bytes - p0[3]), dt) ELSE RateNone,
        pps_rx |-> IF has THEN Rate(stat.rx_packets - p0[4], dt) ELSE RateNone,
        pps_tx |-> IF has THEN Rate(stat.tx_packets - p0[5], dt) ELSE RateNone]

\* the row port_stats_reply_handler appends for one stat
PortRow(dpid, now, stat, prev) ==
    LET r == PortRates(now, stat, prev)
    IN [timestamp |-> now, dpid |-> dpid, port |-> stat.port_no,
        rx_bytes |-> stat.rx_bytes, tx_bytes |-> stat.tx_bytes,
        rx_pkts |-> stat.rx_packets, tx_pkts |-> stat.tx_packets,
        rx_bps |-> Round2(r.bps_rx), tx_bps |-> Round2(r.bps_tx),
        rx_pps |-> Round2(r.pps_rx), tx_pps |-> Round2(r.pps_tx)]

RECURSIVE PortStatsLoop(_, _, _, _, _)
\* the loop of port_stats_reply_handler over ev.msg.body: prev afterwards, the
\* rows collected, the rates computed for them and the ports whose rates were
\* computed against prev
PortStatsLoop(dpid, now, body, prev, acc) ==
    IF body = <<>>
    THEN [prev |-> prev, rows |-> acc.rows, rates |-> acc.rates, rated |-> acc.rated]
    ELSE LET stat == Head(body)
         IN IF GeU32(stat.port_no, OFPP_MAX)
            THEN PortStatsLoop(dpid, now, Tail(body), prev, acc)
            ELSE PortStatsLoop(dpid, now, Tail(body),
                    DictSet(prev, stat.port_no,
                            <<now, stat.rx_bytes, stat.tx_bytes,
                              stat.rx_packets, stat.tx_packets>>),
                    [rows |-> Append(acc.rows, PortRow(dpid, now, stat, prev)),
                     rates |-> Append(acc.rates, PortRates(now, stat, prev)),
                     rated |-> IF DictHas(prev, stat.port_no)
                               THEN acc.rated \cup {stat.port_no} ELSE acc.rated])

\* self._append_csv(path, rows, header)
CsvWrite(kind, dpid, rows) ==
    [app |-> "telemetry", type |-> "csv", kind |-> kind, dpid |-> dpid, rows |-> rows]

FlowStat(cookie, priority, packet_count, byte_count, match) ==
    [cookie |-> cookie, priority |-> priority, packet_count |-> packet_count,
     byte_count |-> byte_count, match |-> match]

FlowStatSkippedNever(stat) == FALSE
\* if getattr(stat, 'priority', 0) == 0: continue
FlowStatSkipped(stat) == stat.priority = 0

\* the row flow_stats_reply_handler appends for one stat
FlowRow(dpid, now, stat) ==
    [timestamp |-> now, dpid |-> dpid, cookie |-> stat.cookie,
     priority |-> stat.priority, packet_count |-> stat.packet_count,
     byte_count |-> stat.byte_count, match |-> stat.match]

RECURSIVE FlowStatsLoop(_, _, _)
\* the loop of flow_stats_reply_handler over ev.msg.body: the rows collected
FlowStatsLoop(dpid, now, body) ==
    IF body = <<>> THEN <<>>
    ELSE IF FlowStatSkipped(Head(body)) THEN FlowStatsLoop(dpid, now, Tail(body))
    ELSE <<FlowRow(dpid, now, Head(body))>> \o FlowStatsLoop(dpid, now, Tail(body))

\* the flow entries a switch may report: the table-miss entry, a learned
\* entry, a NAT entry and a firewall entry
FlowStatMiss == FlowStat(0, TABLE_MISS_PRIORITY, 40, 4000, {})
FlowStatLearned == FlowStat(0, LEARNED_PRIORITY, 7, 700, {<<"eth_dst", MacB>>})
FlowStatVip == FlowStat(0, VIP_PRIORITY, 3, 300,
                        {<<"eth_type", ETH_TYPE_IP>>, <<"ipv4_dst", VIP_IP>>})
FlowStatFirewall == FlowStat(0, FIREWALL_PRIORITY, 0, 0, RuleIcmp)
FlowStatsReplies ==
    ({1} \X {<<>>, <<FlowStatMiss>>, <<FlowStatMiss, FlowStatLearned>>,
             <<FlowStatFirewall, FlowStatMiss, FlowStatVip, FlowStatLearned>>})
    \cup ({2} \X {<<FlowStatMiss, FlowStatMiss>>, <<FlowStatVip, FlowStatVip>>})

(* ---------------------------------------------------------------------- *)
(* ryu_app_telemetry.py: the polling task                                  *)
(* ---------------------------------------------------------------------- *)
\* parser.OFPPortStatsRequest(dp, 0, ofp.OFPP_ANY), sent on the datapath dp
\* registered for dpid
OFPPortStatsRequest(dpid, dp) ==
    [app |-> "telemetry", type |-> "port_stats_request", dpid |-> dpid, dp |-> dp]
\* parser.OFPFlowStatsRequest(dp, 0, OFPTT_ALL, OFPP_ANY, OFPG_ANY)
OFPFlowStatsRequest(dpid, dp) ==
    [app |-> "telemetry", type |-> "flow_stats_request", dpid |-> dpid, dp |-> dp]

\* which dp.send_msg of the try block raises, if any
SendFailures == {"none", "port", "flow"}

MonitorTryUncaught(dpid, dp, fail) ==
    [msgs |-> IF fail = "port" THEN <<>>
              ELSE IF fail = "flow" THEN <<OFPPortStatsRequest(dpid, dp)>>
              ELSE <<OFPPortStatsRequest(dpid, dp), OFPFlowStatsRequest(dpid, dp)>>,
     raised |-> fail # "none"]
\* the try block of _monitor for one datapath: the requests sent, and whether
\* an exception leaves the block (except Exception logs it)
MonitorTry(dpid, dp, fail) ==
    [msgs |-> IF fail = "port" THEN <<>>
              ELSE IF fail = "flow" THEN <<OFPPortStatsRequest(dpid, dp)>>
              ELSE <<OFPPortStatsRequest(dpid, dp), OFPFlowStatsRequest(dpid, dp)>>,
     raised |-> FALSE]

RECURSIVE MonitorLoop(_, _, _)
\* one pass of "for dpid, dp in list(self.datapaths.items())" from dpid d on
\* (the items are taken in the order of their dpids): the requests sent and
\* whether the task is still running afterwards
MonitorLoop(dps, fails, d) ==
    IF \A e \in dps : e[1] < d THEN [msgs |-> <<>>, alive |-> TRUE]
    ELSE IF ~DictHas(dps, d) THEN MonitorLoop(dps, fails, d + 1)
    ELSE LET r == MonitorTry(d, DictGet(dps, d, 0), fails[d])
         IN IF r.raised THEN [msgs |-> r.msgs, alive |-> FALSE]
            ELSE LET rest == MonitorLoop(dps, fails, d + 1)
                 IN [msgs |-> r.msgs \o rest.msgs, alive |-> rest.alive]

\* the port counters a switch may report
StatP1Early == PortStat(1, 1000, 500, 10, 5)
StatP1Late == PortStat(1, 3000, 500, 30, 5)
StatLocal == PortStat(OFPP_LOCAL, 0, 0, 0, 0)
PortStatsReplies ==
    ({1} \X {<<>>, <<StatP1Early, StatLocal>>, <<StatP1Late, StatLocal>>})
    \cup ({2} \X {<<StatP1Early>>})

(* ---------------------------------------------------------------------- *)
(* The controller and its switches                                         *)
(* ---------------------------------------------------------------------- *)
\* stale: a rate was computed against a sample of an earlier session;
\* rates: the rates a port-stats reply computed, one per row;
\* replaced: the flow entries the FlowMods of the step took the place of;
\* body: the body of a flow-stats reply;
\* fails: per registered dpid, the request of a poll whose send_msg raised
Event(type, d, pkt, in_port) ==
    [type |-> type, dpid |-> d, pkt |-> pkt, in_port |-> in_port, stale |-> FALSE,
     rates |-> <<>>, replaced |-> {}, body |-> <<>>, fails |-> <<>>]

\* the entries of table that the FlowMods among msgs replace
Replaced(table, msgs) ==
    {r \in table : \E i \in 1..Len(msgs) :
        /\ msgs[i].type = "flow_mod"
        /\ msgs[i].mod.match = r.match
        /\ msgs[i].mod.priority = r.priority}

Init ==
    /\ drop_rules \in RuleSets
    /\ conn = [d \in Dpids |-> "down"]
    /\ flowTable = [d \in Dpids |-> {}]
    /\ mac_to_port = [d \in Dpids |-> {}]
    /\ rr_index = 0
    /\ ip2mac = {}
    /\ SERVER_POOL = SERVER_POOL_INIT
    /\ datapaths = {}
    /\ prev_port = {}
    /\ clock = 0
    /\ sampled = {}
    /\ ev = Event("init", 0, NoPkt, 0)
    /\ sent = <<>>
    /\ chosen = <<>>
    /\ monitor_alive = TRUE
    /\ sessions = [d \in Dpids |-> [joined |-> 0, live |-> {}]]

\* EventOFPSwitchFeatures (CONFIG_DISPATCHER) of a new session of dpid d, handled
\* by LearningSwitch13, SimpleFirewall and SimpleLoadBalancer, then EventDP(enter)
\* handled by Telemetry13; only then is the datapath in MAIN_DISPATCHER
Connect(d) ==
    /\ conn[d] = "down"
    /\ LET msgs == LearningSwitchFeatures \o FirewallSwitchFeatures(drop_rules)
       IN /\ sent' = msgs
          /\ flowTable' = [flowTable EXCEPT ![d] = ApplyMsgs(@, msgs)]
    /\ conn' = [conn EXCEPT ![d] = "main"]
    /\ datapaths' = HandlerDpEnter(datapaths, d, d)
    /\ ev' = [Event("connect", d, NoPkt, 0) EXCEPT
                 !.replaced = Replaced(flowTable[d],
                                 LearningSwitchFeatures \o FirewallSwitchFeatures(drop_rules))]
    /\ UNCHANGED <<monitor_alive, sessions, drop_rules, mac_to_port, rr_index, ip2mac, SERVER_POOL,
                   prev_port, clock, sampled, chosen>>

\* the datapath of dpid d dies: EventDP(leave), handled by Telemetry13 only
Disconnect(d) ==
    /\ conn[d] = "main"
    /\ conn' = [conn EXCEPT ![d] = "down"]
    /\ datapaths' = HandlerDpLeave(datapaths, d)
    /\ prev_port' = PrevPortPop(prev_port, d)
    /\ ev' = Event("disconnect", d, NoPkt, 0)
    /\ sent' = <<>>
    /\ sampled' = {e \in sampled : e[1] # d}
                     \cup {<<d, e[2], "old">> : e \in {x \in sampled : x[1] = d}}
    /\ UNCHANGED <<monitor_alive, sessions, drop_rules, flowTable, mac_to_port, rr_index, ip2mac,
                   SERVER_POOL, clock, chosen>>

\* a packet arrives on a port of switch d and hits an entry that sends it to
\* the controller: EventOFPPacketIn, handled by SimpleLoadBalancer.packet_in
\* and LearningSwitch13._packet_in_handler
PacketIn(d, pkt, in_port) ==
    /\ conn[d] = "main"
    /\ \E hit \in BestEntries(flowTable[d], pkt, in_port) :
        /\ ToController(hit)
        /\ LET buffer_id == BufferIdOf(hit)
               lb == LbPacketIn(pkt, in_port, buffer_id, rr_index, ip2mac, SERVER_POOL)
               ls == LsPacketIn(pkt, in_port, buffer_id, TableOf(mac_to_port, d))
               msgs == lb.msgs \o ls.msgs
           IN /\ Len(chosen) + Len(lb.picked) <= MaxDecisions
              /\ rr_index' = lb.rr
              /\ ip2mac' = lb.i2m
              /\ SERVER_POOL' = lb.pool
              /\ chosen' = chosen \o lb.picked
              /\ mac_to_port' = [mac_to_port EXCEPT ![d] = ls.m2p]
              /\ sent' = msgs
              /\ flowTable' = [flowTable EXCEPT ![d] = ApplyMsgs(@, msgs)]
              /\ ev' = [Event("packet_in", d, pkt, in_port) EXCEPT
                           !.replaced = Replaced(flowTable[d], msgs)]
    /\ UNCHANGED <<monitor_alive, sessions, drop_rules, conn, datapaths, prev_port, clock, sampled>>

\* an entry with an idle timeout sees no traffic for that long and is removed
IdleExpire(d) ==
    /\ \E r \in flowTable[d] :
        /\ r.idle_timeout > 0
        /\ flowTable' = [flowTable EXCEPT ![d] = @ \ {r}]
    /\ ev' = Event("expire", d, NoPkt, 0)
    /\ sent' = <<>>
    /\ UNCHANGED <<monitor_alive, sessions, drop_rules, conn, mac_to_port, rr_index, ip2mac,
                   SERVER_POOL, datapaths, prev_port, clock, sampled, chosen>>

\* EventOFPPortStatsReply (MAIN_DISPATCHER) from dpid d:
\* Telemetry13.port_stats_reply_handler
PortStatsReply(d, body) ==
    /\ conn[d] = "main"
    /\ LET r == PortStatsLoop(d, clock, body, DictGet(prev_port, d, {}),
                              [rows |-> <<>>, rates |-> <<>>, rated |-> {}])
       IN /\ prev_port' = DictSet(prev_port, d, r.prev)
          /\ sent' = IF r.rows # <<>> THEN <<CsvWrite("port_stats", d, r.rows)>> ELSE <<>>
          /\ sampled' = sampled \cup {<<d, r.rows[i].port, "cur">> : i \in 1..Len(r.rows)}
          /\ ev' = [Event("port_stats", d, NoPkt, 0) EXCEPT
                       !.stale = \E p \in r.rated : <<d, p, "cur">> \notin sampled,
                       !.rates = r.rates]
    /\ UNCHANGED <<monitor_alive, sessions, drop_rules, conn, flowTable, mac_to_port, rr_index, ip2mac,
                   SERVER_POOL, datapaths, clock, chosen>>

\* EventOFPFlowStatsReply (MAIN_DISPATCHER) from dpid d:
\* Telemetry13.flow_stats_reply_handler
FlowStatsReply(d, body) ==
    /\ conn[d] = "main"
    /\ LET rows == FlowStatsLoop(d, clock, body)
       IN sent' = IF rows # <<>> THEN <<CsvWrite("flow_stats", d, rows)>> ELSE <<>>
    /\ ev' = [Event("flow_stats", d, NoPkt, 0) EXCEPT !.body = body]
    /\ UNCHANGED <<monitor_alive, sessions, drop_rules, conn, flowTable, mac_to_port, rr_index, ip2mac,
                   SERVER_POOL, datapaths, prev_port, clock, sampled, chosen>>

\* one tick of Telemetry13._monitor: a pass over the registry, then
\* hub.sleep(self.poll_interval)
MonitorPoll ==
    /\ monitor_alive
    /\ \E fails \in [Dpids -> SendFailures] :
        /\ \A d \in Dpids : ~DictHas(datapaths, d) => fails[d] = "none"
        /\ LET r == MonitorLoop(datapaths, fails, 1)
           IN /\ sent' = r.msgs
              /\ monitor_alive' = r.alive
        /\ ev' = [Event("poll", 0, NoPkt, 0) EXCEPT !.fails = fails]
    /\ UNCHANGED <<sessions, drop_rules, conn, flowTable, mac_to_port, rr_index, ip2mac,
                   SERVER_POOL, datapaths, prev_port, clock, sampled, chosen>>

\* time passes
Tick ==
    /\ clock < MaxTime
    /\ clock' = clock + 1
    /\ ev' = Event("tick", 0, NoPkt, 0)
    /\ sent' = <<>>
    /\ UNCHANGED <<monitor_alive, sessions, drop_rules, conn, flowTable, mac_to_port, rr_index, ip2mac,
                   SERVER_POOL, datapaths, prev_port, sampled, chosen>>

Next ==
    \/ \E d \in Dpids : Connect(d)
    \/ \E d \in Dpids : Disconnect(d)
    \/ \E a \in Arrivals : PacketIn(a[1], a[2], a[3])
    \/ \E d \in Dpids : IdleExpire(d)

Spec == Init /\ [][Next]_vars

\* the telemetry collector with the sessions it follows
NextTelemetry ==
    \/ \E d \in Dpids : Connect(d)
    \/ \E d \in Dpids : Disconnect(d)
    \/ \E r \in PortStatsReplies : PortStatsReply(r[1], r[2])
    \/ \E r \in FlowStatsReplies : FlowStatsReply(r[1], r[2])
    \/ MonitorPoll
    \/ Tick

SpecTelemetry == Init /\ [][NextTelemetry]_vars

\* Sessions that share a datapath id: a switch that reconnects before the
\* controller has given up its old connection. sessions[d].joined numbers the
\* sessions of d in the order they joined, live are those that have not left.
\* The n-th session of d joins: EventOFPSwitchFeatures of the new connection,
\* then EventDP(enter) with its datapath object (named n here)
SessionJoin(d) ==
    /\ sessions[d].joined < MaxSessions
    /\ LET n == sessions[d].joined + 1
           msgs == LearningSwitchFeatures \o FirewallSwitchFeatures(drop_rules)
       IN /\ sessions' = [sessions EXCEPT ![d] = [joined |-> n, live |-> @.live \cup {n}]]
          /\ datapaths' = HandlerDpEnter(datapaths, d, n)
          /\ sent' = msgs
          /\ flowTable' = [flowTable EXCEPT ![d] = ApplyMsgs(@, msgs)]
          /\ ev' = [Event("connect", d, NoPkt, 0) EXCEPT
                       !.replaced = Replaced(flowTable[d], msgs)]
    /\ conn' = [conn EXCEPT ![d] = "main"]
    /\ UNCHANGED <<monitor_alive, drop_rules, mac_to_port, rr_index, ip2mac, SERVER_POOL,
                   prev_port, clock, sampled, chosen>>

\* session n of d leaves: EventDP(leave) with that session's datapath object
SessionLeave(d, n) ==
    /\ n \in sessions[d].live
    /\ sessions' = [sessions EXCEPT ![d].live = @ \ {n}]
    /\ conn' = [conn EXCEPT ![d] = IF sessions[d].live = {n} THEN "down" ELSE "main"]
    /\ datapaths' = HandlerDpLeave(datapaths, d)
    /\ prev_port' = PrevPortPop(prev_port, d)
    /\ ev' = Event("disconnect", d, NoPkt, 0)
    /\ sent' = <<>>
    /\ sampled' = {e \in sampled : e[1] # d}
                     \cup {<<d, e[2], "old">> : e \in {x \in sampled : x[1] = d}}
    /\ UNCHANGED <<monitor_alive, drop_rules, flowTable, mac_to_port, rr_index, ip2mac,
                   SERVER_POOL, clock, chosen>>

NextSessions ==
    \/ \E d \in Dpids : SessionJoin(d)
    \/ \E d \in Dpids : \E n \in 1..MaxSessions : SessionLeave(d, n)
    \/ \E r \in PortStatsReplies : PortStatsReply(r[1], r[2])
    \/ MonitorPoll

SpecSessions == Init /\ [][NextSessions]_vars

(* ====================================================================== *)
(* Properties                                                              *)
(* ====================================================================== *)
FlowMods(msgs) == {msgs[i].mod : i \in {j \in 1..Len(msgs) : msgs[j].type = "flow_mod"}}
PacketOuts(msgs, app) ==
    {msgs[i].out : i \in {j \in 1..Len(msgs) : msgs[j].type = "packet_out" /\ msgs[j].app = app}}

\* the table holds a priority-0 entry matching everything whose only action
\* is output to the controller
HasTableMiss(table) ==
    \E r \in table :
        /\ r.priority = 0
        /\ r.match = {}
        /\ Len(r.actions) = 1
        /\ r.actions[1].type = "output"
        /\ r.actions[1].port = OFPP_CONTROLLER

IsDrop(r) == r.inst = "CLEAR_ACTIONS" /\ r.actions = <<>>

\* the table holds a priority-100 drop entry for the configured rule
HasDropFor(table, rule) ==
    \E r \in table : r.priority = 100 /\ r.match = rule /\ IsDrop(r)

(* C1, as stated: on every connected switch (so before any packet-in of the  *)
(* session is handled) the flow table holds the table-miss entry and one     *)
(* priority-100 drop entry for EVERY rule of the configured rule set.        *)
C1_AsStated ==
    \A d \in Dpids :
        conn[d] = "main" =>
            /\ HasTableMiss(flowTable[d])
            /\ \A i \in 1..Len(drop_rules) : HasDropFor(flowTable[d], drop_rules[i])

(* C1, amended: on every connected switch the flow table holds the           *)
(* table-miss entry and one priority-100 drop entry for every configured     *)
(* rule whose match could be built; a rule that fails is skipped.            *)
C1_TableMissAndFirewallAtConnect ==
    \A d \in Dpids :
        conn[d] = "main" =>
            /\ HasTableMiss(flowTable[d])
            /\ \A i \in 1..Len(drop_rules) :
                  HasDropFor(flowTable[d], drop_rules[i]) <=> ~OFPMatchRaises(drop_rules[i])

C1_Witness ==
    /\ ev.type = "connect"
    /\ conn[ev.dpid] = "main"
    /\ drop_rules = RulesFile
    /\ Cardinality(flowTable[ev.dpid]) = 3

\* pkt matches a firewall rule of the configuration (a rule OFPMatch can build)
FirewallMatches(pkt, in_port) ==
    \E i \in 1..Len(drop_rules) :
        /\ ~OFPMatchRaises(drop_rules[i])
        /\ Matches(drop_rules[i], pkt, in_port)

(* C2: on every connected switch a packet that matches a configured          *)
(* firewall rule hits a drop entry, whatever learned and VIP entries the     *)
(* table holds; it is never the packet of a packet-in and never the data of  *)
(* a packet-out.                                                             *)
C2_FirewallAlwaysDrops ==
    /\ \A d \in Dpids, pkt \in Packets, p \in Ports :
          (conn[d] = "main" /\ FirewallMatches(pkt, p)) =>
              /\ BestEntries(flowTable[d], pkt, p) # {}
              /\ \A hit \in BestEntries(flowTable[d], pkt, p) : IsDrop(hit)
    /\ ev.type = "packet_in" => ~FirewallMatches(ev.pkt, ev.in_port)
    /\ \A i \in 1..Len(sent) :
          sent[i].type = "packet_out" => ~FirewallMatches(sent[i].out.data, ev.in_port)

\* a firewall-matched packet that a VIP entry and a learned entry match too
C2_Witness ==
    /\ conn[1] = "main"
    /\ FirewallMatches(PktPingVip, 1)
    /\ FirewallMatches(PktBtoA, 2)
    /\ \E r \in flowTable[1] : r.kind = "vip_fwd" /\ Matches(r.match, PktPingVip, 1)
    /\ \E r \in flowTable[1] : r.kind = "learned" /\ Matches(r.match, PktBtoA, 2)

PriorityOfKind(kind) ==
    CASE kind = "firewall" -> 100
      [] kind = "vip_fwd" -> 10
      [] kind = "vip_rev" -> 10
      [] kind = "learned" -> 1
      [] kind = "table_miss" -> 0

IssuedRules == UNION {flowTable[d] : d \in Dpids} \cup {EntryOf(m) : m \in FlowMods(sent)}

(* C3: every flow rule issued has the priority of its kind (firewall 100,    *)
(* VIP forward/reverse 10, learned eth_dst 1, table-miss 0), so every        *)
(* firewall rule is strictly above every learned or VIP rule.                *)
C3_PriorityByKind ==
    /\ \A r \in IssuedRules : r.priority = PriorityOfKind(r.kind)
    /\ \A f \in IssuedRules, q \in IssuedRules :
          (f.kind = "firewall" /\ q.kind \in {"vip_fwd", "vip_rev", "learned", "table_miss"})
              => f.priority > q.priority

C3_Witness ==
    \E d \in Dpids :
        {r.kind : r \in flowTable[d]} = {"firewall", "vip_fwd", "vip_rev", "learned", "table_miss"}

Count(seq, lo, hi, v) == Cardinality({k \in lo..hi : seq[k] = v})

(* C4: the backends selected follow the strict rotating pool order from the  *)
(* pointer's initial position, and in any K consecutive decisions each of    *)
(* the N backends is selected floor(K/N) or ceil(K/N) times.                 *)
C4_RoundRobin ==
    LET N == Len(SERVER_POOL)
    IN /\ \A k \in 1..Len(chosen) : chosen[k] = (k - 1) % N
       /\ \A lo \in 1..Len(chosen), hi \in 1..Len(chosen) :
             lo <= hi =>
                LET K == hi - lo + 1
                IN /\ \A k \in lo..hi : chosen[k] = (chosen[lo] + (k - lo)) % N
                   /\ \A b \in 0..(N - 1) :
                         /\ Count(chosen, lo, hi, b) >= K \div N
                         /\ Count(chosen, lo, hi, b) <= (K + N - 1) \div N

C4_Witness == Len(chosen) >= 3 /\ chosen[1] = 0 /\ chosen[2] = 1 /\ chosen[3] = 0

(* C5: the rotation pointer changes only in a packet-in whose packet is      *)
(* IPv4 to the VIP, and then by exactly one position modulo the pool size,   *)
(* resolved backend or not; every other event, ARP requests for the VIP      *)
(* included, leaves it unchanged.                                            *)
C5_PointerFrame ==
    [][IF ev'.type = "packet_in" /\ ev'.pkt.ip4.present /\ ev'.pkt.ip4.dst = VIP_IP
       THEN rr_index' = (rr_index + 1) % Len(SERVER_POOL)
       ELSE rr_index' = rr_index]_vars

\* the pointer has advanced on an unresolved backend, and an ARP request for
\* the VIP has just been answered without moving it
C5_Witness ==
    /\ ev.type = "packet_in"
    /\ ev.pkt = PktArpVip
    /\ rr_index = 1
    /\ Len(chosen) = 1
    /\ \A d \in Dpids : \A r \in flowTable[d] : r.kind # "vip_fwd"

\* the learning engine gets as far as recording the source of pkt
LsLearns(pkt) == pkt.eth /\ ~LsIgnores(pkt)

PortsOf(table, mac) == {e[2] : e \in {x \in table : x[1] = mac}}

(* C6: a switch's learning table records at most one port per MAC; a learned *)
(* packet-in sets the entry of its source MAC to its ingress port (so the    *)
(* entry is that of the most recent learned packet: a repeated observation   *)
(* changes nothing, another port overwrites) and nothing else changes the    *)
(* table.                                                                    *)
C6_MacLearning ==
    /\ [](\A d \in Dpids : \A e \in mac_to_port[d] : PortsOf(mac_to_port[d], e[1]) = {e[2]})
    /\ [][IF ev'.type = "packet_in" /\ LsLearns(ev'.pkt)
          THEN /\ PortsOf(mac_to_port'[ev'.dpid], ev'.pkt.src) = {ev'.in_port}
               /\ \A e \in mac_to_port[ev'.dpid] :
                     e[1] # ev'.pkt.src => e \in mac_to_port'[ev'.dpid]
               /\ \A e \in mac_to_port'[ev'.dpid] :
                     e[1] # ev'.pkt.src => e \in mac_to_port[ev'.dpid]
               /\ <<ev'.pkt.src, ev'.in_port>> \in mac_to_port[ev'.dpid]
                     => mac_to_port' = mac_to_port
               /\ \A d \in Dpids \ {ev'.dpid} : mac_to_port'[d] = mac_to_port[d]
          ELSE mac_to_port' = mac_to_port]_vars

\* MacA, first learned on port 1 of switch 1 (an entry toward it outputs to
\* port 1), has just been seen on port 2 and the table now says port 2
C6_Witness ==
    /\ ev.type = "packet_in"
    /\ ev.dpid = 1
    /\ ev.pkt.src = MacA
    /\ ev.in_port = 2
    /\ PortsOf(mac_to_port[1], MacA) = {2}
    /\ \E r \in flowTable[1] :
          r.kind = "learned" /\ r.match = {<<"eth_dst", MacA>>} /\ r.actions[1].port = 1

(* C7, as stated: a disconnected switch has no learned entry left, so        *)
(* nothing learned in a session survives into the next one.                  *)
C7_TablePurgedOnDisconnect ==
    \A d \in Dpids : conn[d] = "down" => mac_to_port[d] = {}

(* C8: a disconnected dpid is neither in the registry nor in the telemetry   *)
(* baseline, every baseline sample was recorded in the dpid's current        *)
(* session, and no rate is computed against a sample of an earlier session.  *)
C8_TelemetryBaselineScopedToSession ==
    /\ \A d \in Dpids :
          conn[d] = "down" => ~DictHas(datapaths, d) /\ ~DictHas(prev_port, d)
    /\ \A d \in Dpids : \A e \in DictGet(prev_port, d, {}) : <<d, e[1], "cur">> \in sampled
    /\ ev.stale = FALSE

\* the first reply of a later session for a port sampled in an earlier one:
\* a row is written with no rate
C8_Witness ==
    /\ ev.type = "port_stats"
    /\ ev.dpid = 1
    /\ <<1, 1, "old">> \in sampled
    /\ clock > 0
    /\ Len(sent) = 1
    /\ sent[1].rows[1].port = 1
    /\ sent[1].rows[1].rx_bytes = 3000
    /\ sent[1].rows[1].rx_bps = RateZero

IsFlood(out) == Len(out.actions) = 1 /\ out.actions[1].type = "output" /\ out.actions[1].port = OFPP_FLOOD

(* C9, as stated: a packet-in whose destination MAC is not in the switch's   *)
(* table records the source, floods the packet and installs no flow rule.    *)
C9_AsStated ==
    [][(ev'.type = "packet_in" /\ ~DictHas(mac_to_port[ev'.dpid], ev'.pkt.dst)) =>
          /\ <<ev'.pkt.src, ev'.in_port>> \in mac_to_port'[ev'.dpid]
          /\ \E out \in PacketOuts(sent', "learning") : IsFlood(out) /\ out.data = ev'.pkt
          /\ FlowMods(sent') = {}]_vars

(* C9, amended: a packet-in that is not LLDP, whose destination does not     *)
(* start with 33:33:, differs from the source and is not in the switch's     *)
(* table makes the learning engine record the source, send exactly one       *)
(* packet-out, a flood of the packet from its ingress port, and install no   *)
(* flow rule of its own.                                                     *)
C9_UnknownDestinationFloods ==
    [][(/\ ev'.type = "packet_in"
        /\ LsLearns(ev'.pkt)
        /\ ev'.pkt.dst # ev'.pkt.src
        /\ ~DictHas(mac_to_port[ev'.dpid], ev'.pkt.dst)) =>
          /\ <<ev'.pkt.src, ev'.in_port>> \in mac_to_port'[ev'.dpid]
          /\ \E out \in PacketOuts(sent', "learning") :
                IsFlood(out) /\ out.data = ev'.pkt /\ out.in_port = ev'.in_port
          /\ Cardinality({i \in 1..Len(sent') : sent'[i].app = "learning"}) = 1
          /\ \A m \in FlowMods(sent') : m.kind \notin {"learned", "table_miss"}
          /\ \A r \in flowTable'[ev'.dpid] :
                r.kind = "learned" => r \in flowTable[ev'.dpid]]_vars

C9_Witness ==
    /\ ev.type = "packet_in"
    /\ ev.pkt = PktAtoB
    /\ ev.dpid = 1
    /\ ev.in_port = 1
    /\ ~DictHas(mac_to_port[1], MacB)
    /\ <<MacA, 1>> \in mac_to_port[1]
    /\ \E out \in PacketOuts(sent, "learning") : IsFlood(out)
    /\ flowTable[1] = ApplyMsgs({}, LearningSwitchFeatures)

(* C10, as stated: a packet-in whose destination MAC is in the switch's      *)
(* table installs an eth_dst rule at priority 1 that outputs to the learned  *)
(* port, and the packet itself is sent out of the learned port (by a         *)
(* packet-out, or by a FlowMod that names the buffered packet).              *)
C10_KnownDestinationUnicast ==
    [][(/\ ev'.type = "packet_in"
        /\ LsLearns(ev'.pkt)
        /\ DictHas(mac_to_port[ev'.dpid], ev'.pkt.dst)) =>
          LET port == DictGet(mac_to_port'[ev'.dpid], ev'.pkt.dst, 0)
              unicast == <<OFPActionOutput(port)>>
          IN /\ \E m \in FlowMods(sent') :
                   /\ m.match = {<<"eth_dst", ev'.pkt.dst>>}
                   /\ m.priority = 1
                   /\ m.actions = unicast
             /\ \/ \E out \in PacketOuts(sent', "learning") :
                      out.actions = unicast /\ out.data = ev'.pkt
                \/ \E m \in FlowMods(sent') :
                      m.actions = unicast /\ m.buffer_id # OFP_NO_BUFFER]_vars

\* the part of C10 the code does: the rule is installed
C10_RuleInstalled ==
    [][(/\ ev'.type = "packet_in"
        /\ LsLearns(ev'.pkt)
        /\ DictHas(mac_to_port[ev'.dpid], ev'.pkt.dst)) =>
          \E r \in flowTable'[ev'.dpid] :
              /\ r.match = {<<"eth_dst", ev'.pkt.dst>>}
              /\ r.priority = 1
              /\ r.actions = <<OFPActionOutput(DictGet(mac_to_port'[ev'.dpid], ev'.pkt.dst, 0))>>]_vars

\* mac begins with 01:80:c2 (the IEEE 802.1 reserved group addresses)
StartsWith0180c2(mac) == Len(mac) >= 3 /\ mac[1] = 1 /\ mac[2] = 128 /\ mac[3] = 194

(* C11, as stated: a packet-in that is an LLDP frame or whose destination    *)
(* MAC begins with 01:80:c2 or 33:33 is ignored by the learning engine: the  *)
(* learning table is unchanged and the engine sends no packet-out and no     *)
(* flow rule for it.                                                         *)
C11_ReservedFramesIgnored ==
    [][(/\ ev'.type = "packet_in"
        /\ ev'.pkt.eth
        /\ \/ ev'.pkt.ethertype = ETH_TYPE_LLDP
           \/ StartsWith0180c2(ev'.pkt.dst)
           \/ StartsWith3333(ev'.pkt.dst)) =>
          /\ mac_to_port' = mac_to_port
          /\ \A i \in 1..Len(sent') : sent'[i].app # "learning"]_vars

\* the part of C11 the code does: LLDP frames and 33:33 destinations
C11_LldpAndV6Ignored ==
    [][(/\ ev'.type = "packet_in"
        /\ ev'.pkt.eth
        /\ \/ ev'.pkt.ethertype = ETH_TYPE_LLDP
           \/ StartsWith3333(ev'.pkt.dst)) =>
          /\ mac_to_port' = mac_to_port
          /\ \A i \in 1..Len(sent') : sent'[i].app # "learning"]_vars

LbMsgs(msgs) == SelectSeq(msgs, LAMBDA m : m.app = "lb")

(* C12: a packet-in that is an ARP request for the VIP, in any state of the  *)
(* pool, the cache and the pointer, leaves the sender's (IP, MAC) in the     *)
(* address cache and makes the VIP engine send exactly one message: a        *)
(* packet-out of an ARP reply with source MAC = virtual MAC and source IP =  *)
(* VIP, addressed to the requester, out of the request's ingress port; the   *)
(* engine installs no flow rule and leaves the pool and the pointer alone.   *)
C12_ProxyArp ==
    [][(/\ ev'.type = "packet_in"
        /\ ev'.pkt.arp.present
        /\ ev'.pkt.arp.opcode = ARP_REQUEST
        /\ ev'.pkt.arp.dst_ip = VIP_IP) =>
          LET req == ev'.pkt.arp
              lb == LbMsgs(sent')
          IN /\ <<req.src_ip, req.src_mac>> \in ip2mac'
             /\ Len(lb) = 1
             /\ lb[1].type = "packet_out"
             /\ lb[1].out.actions = <<OFPActionOutput(ev'.in_port)>>
             /\ lb[1].out.data.ethertype = ETH_TYPE_ARP
             /\ lb[1].out.data.src = VIP_MAC
             /\ lb[1].out.data.dst = req.src_mac
             /\ lb[1].out.data.arp.opcode = ARP_REPLY
             /\ lb[1].out.data.arp.src_mac = VIP_MAC
             /\ lb[1].out.data.arp.src_ip = VIP_IP
             /\ lb[1].out.data.arp.dst_mac = req.src_mac
             /\ lb[1].out.data.arp.dst_ip = req.src_ip
             /\ SERVER_POOL' = SERVER_POOL
             /\ rr_index' = rr_index]_vars

\* an ARP request for the VIP answered while a backend is resolved and the
\* pointer is off its initial position
C12_Witness ==
    /\ ev.type = "packet_in"
    /\ ev.pkt = PktArpVip
    /\ rr_index = 1
    /\ SERVER_POOL[2].mac = MacB
    /\ <<IpA, MacA>> \in ip2mac
    /\ \E i \in 1..Len(sent) : sent[i].app = "lb" /\ sent[i].out.data.arp.src_mac = VIP_MAC

\* the backend a VIP decision in the current state selects, and its MAC as
\* packet_in resolves it with the address cache i2m
SelectedServer == SERVER_POOL[rr_index + 1]
SelectedMac(i2m) ==
    IF SelectedServer.mac # NoMac THEN SelectedServer.mac
    ELSE IF \E e \in i2m : e[1] = SelectedServer.ip
    THEN (CHOOSE e \in i2m : e[1] = SelectedServer.ip)[2]
    ELSE NoMac

IsVipPacketIn(e) == e.type = "packet_in" /\ e.pkt.eth /\ e.pkt.ip4.present /\ e.pkt.ip4.dst = VIP_IP

(* C13: a packet-in of an IPv4 packet to the VIP whose selected backend has  *)
(* a resolved MAC (its cached value, else the address cache entry of its IP) *)
(* makes the VIP engine install exactly two flow rules on the ingress        *)
(* switch, both at priority 10 with idle timeout 30: a forward rule matching *)
(* IPv4 destination = VIP that sets destination IP and MAC to the backend's, *)
(* and a reverse rule matching source = backend IP and destination = the     *)
(* packet's source IP that sets source IP and MAC to the VIP's and outputs   *)
(* to the packet's ingress port.                                             *)
C13_NatRulesInstalled ==
    [][(IsVipPacketIn(ev') /\ SelectedMac(ip2mac') # NoMac) =>
          LET mods == SelectSeq(LbMsgs(sent'), LAMBDA m : m.type = "flow_mod")
              fwd == mods[1].mod
              back == mods[2].mod
          IN /\ Len(mods) = 2
             /\ fwd.priority = 10 /\ fwd.idle_timeout = 30
             /\ back.priority = 10 /\ back.idle_timeout = 30
             /\ fwd.match = {<<"eth_type", ETH_TYPE_IP>>, <<"ipv4_dst", VIP_IP>>}
             /\ Len(fwd.actions) = 3
             /\ fwd.actions[1] = OFPActionSetField("ipv4_dst", SelectedServer.ip)
             /\ fwd.actions[2] = OFPActionSetField("eth_dst", SelectedMac(ip2mac'))
             /\ fwd.actions[3].type = "output"
             /\ back.match = {<<"eth_type", ETH_TYPE_IP>>,
                              <<"ipv4_src", SelectedServer.ip>>,
                              <<"ipv4_dst", ev'.pkt.ip4.src>>}
             /\ back.actions = <<OFPActionSetField("ipv4_src", VIP_IP),
                                 OFPActionSetField("eth_src", VIP_MAC),
                                 OFPActionOutput(ev'.in_port)>>
             /\ EntryOf(fwd) \in flowTable'[ev'.dpid]
             /\ EntryOf(back) \in flowTable'[ev'.dpid]
             /\ \A d \in Dpids \ {ev'.dpid} : flowTable'[d] = flowTable[d]]_vars

\* NAT rules for backend 10.0.1.2 have just been installed on switch 2 for a
\* packet that came in on port 1
C13_Witness ==
    /\ ev.type = "packet_in"
    /\ ev.dpid = 2
    /\ ev.pkt = PktAtoVip
    /\ \E r \in flowTable[2] : r.kind = "vip_fwd" /\ r.actions[2].value = MacB
    /\ \E r \in flowTable[2] : r.kind = "vip_rev" /\ r.actions[3].port = 1
    /\ \E i \in 1..Len(sent) : sent[i].type = "flow_mod" /\ sent[i].mod.kind = "vip_rev"

(* C14: a packet-in of an IPv4 packet to the VIP whose selected backend's    *)
(* MAC is resolved neither from its cached value nor from the address cache  *)
(* makes the VIP engine send exactly one message, a packet-out that floods   *)
(* the unchanged packet from its ingress port; the engine installs no flow   *)
(* rule and sends no rewritten packet.                                       *)
C14_UnresolvedFloods ==
    [][(IsVipPacketIn(ev') /\ SelectedMac(ip2mac') = NoMac) =>
          LET lb == LbMsgs(sent')
          IN /\ Len(lb) = 1
             /\ lb[1].type = "packet_out"
             /\ IsFlood(lb[1].out)
             /\ lb[1].out.data = ev'.pkt
             /\ lb[1].out.in_port = ev'.in_port
             /\ \A r \in flowTable'[ev'.dpid] :
                   r.kind \in {"vip_fwd", "vip_rev"} => r \in flowTable[ev'.dpid]
             /\ SERVER_POOL' = SERVER_POOL]_vars

\* backend 0 is selected while backend 1 is resolved: the packet is flooded
C14_Witness ==
    /\ ev.type = "packet_in"
    /\ ev.pkt = PktAtoVip
    /\ SERVER_POOL[1].mac = NoMac
    /\ SERVER_POOL[2].mac = MacB
    /\ rr_index = 1
    /\ Len(chosen) = 3
    /\ Len(LbMsgs(sent)) = 1
    /\ IsFlood(LbMsgs(sent)[1].out)

\* the VIP engine decided the packet of the event: it sent a proxy-ARP reply,
\* an unresolved flood or a NAT install
VipDecided(msgs) == LbMsgs(msgs) # <<>>

(* C15, as stated: when the VIP engine decides the packet of a packet-in     *)
(* (proxy-ARP reply, unresolved flood or NAT install), the learning engine's *)
(* forward/flood is not applied to that packet as well: the learning engine  *)
(* sends nothing for it.                                                     *)
C15_VipDecisionExcludesLearning ==
    [][(ev'.type = "packet_in" /\ VipDecided(sent')) =>
          \A i \in 1..Len(sent') : sent'[i].app # "learning"]_vars

\* what the code does: the learning engine still handles every packet-in it
\* does not ignore
C15_BothEnginesHandle ==
    [][(ev'.type = "packet_in" /\ VipDecided(sent') /\ LsLearns(ev'.pkt)) =>
          /\ \E i \in 1..Len(sent') : sent'[i].app = "learning"
          /\ <<ev'.pkt.src, ev'.in_port>> \in mac_to_port'[ev'.dpid]]_vars

(* C16: on a connected switch whose configuration holds a rule that could    *)
(* not be built, that rule has no entry, every other rule of the rule set    *)
(* has its priority-100 drop entry, and the table-miss entry is installed.   *)
C16_FailedRuleSkipped ==
    \A d \in Dpids : \A i \in 1..Len(drop_rules) :
        (conn[d] = "main" /\ OFPMatchRaises(drop_rules[i])) =>
            /\ \A r \in flowTable[d] : r.match # drop_rules[i]
            /\ \A j \in 1..Len(drop_rules) :
                  (j # i /\ ~OFPMatchRaises(drop_rules[j])) =>
                      \E r \in flowTable[d] :
                          /\ r.kind = "firewall"
                          /\ r.priority = 100
                          /\ r.match = drop_rules[j]
                          /\ IsDrop(r)
            /\ HasTableMiss(flowTable[d])

\* a rule set whose second rule fails, just installed: the rules before and
\* after it are in the table
C16_Witness ==
    /\ ev.type = "connect"
    /\ Len(drop_rules) = 3
    /\ OFPMatchRaises(drop_rules[2])
    /\ HasDropFor(flowTable[ev.dpid], drop_rules[1])
    /\ HasDropFor(flowTable[ev.dpid], drop_rules[3])
    /\ Len(sent) = 3

(* C17: a packet-in whose payload holds no parsable Ethernet header changes  *)
(* nothing: the learning tables, the address cache, the rotation pointer,    *)
(* the backend pool and the flow tables are unchanged and no message is      *)
(* sent; the controller then still handles a later packet-in of that switch. *)
C17_MalformedDiscarded ==
    /\ [][(ev'.type = "packet_in" /\ ~ev'.pkt.eth) =>
             /\ mac_to_port' = mac_to_port
             /\ ip2mac' = ip2mac
             /\ rr_index' = rr_index
             /\ SERVER_POOL' = SERVER_POOL
             /\ flowTable' = flowTable
             /\ chosen' = chosen
             /\ conn' = conn
             /\ sent' = <<>>]_vars
    /\ []((ev.type = "packet_in" /\ ~ev.pkt.eth) =>
             ENABLED PacketIn(ev.dpid, PktArpVip, ev.in_port))

\* a truncated packet-in has just been handled on a switch that has learned
\* addresses and holds learned and NAT entries
C17_Witness ==
    /\ ev.type = "packet_in"
    /\ ev.pkt = PktTruncated
    /\ mac_to_port[ev.dpid] # {}
    /\ ip2mac # {}
    /\ rr_index = 1
    /\ \E r \in flowTable[ev.dpid] : r.kind = "learned"
    /\ \E r \in flowTable[ev.dpid] : r.kind = "vip_fwd"
    /\ sent = <<>>

\* the rows of the port_stats file written by the last step
RowsWritten(msgs) == IF msgs = <<>> THEN <<>> ELSE msgs[1].rows
\* the baseline of (d, port) in the telemetry state pp
Baseline(pp, d, port) == DictGet(DictGet(pp, d, {}), port, <<>>)
HasBaseline(pp, d, port) == DictHas(DictGet(pp, d, {}), port)

\* the computed rate is num / dt
IsQuotient(rate, num, dt) == rate.den > 0 /\ rate.num * dt = num * rate.den

(* C18: every sample of a (dpid, port) taken later than its predecessor      *)
(* yields bps = 8 * (bytes - previous bytes) / (t - previous t) and pps =    *)
(* (packets - previous packets) / (t - previous t), for rx and tx, and the   *)
(* sample becomes the baseline of the next one, so each rate is against the  *)
(* immediately preceding sample of that (dpid, port).                        *)
C18_RateLaw ==
    [][ev'.type = "port_stats" =>
          /\ Len(ev'.rates) = Len(RowsWritten(sent'))
          /\ \A i \in 1..Len(RowsWritten(sent')) :
              LET row == RowsWritten(sent')[i]
                  rate == ev'.rates[i]
                  p0 == Baseline(prev_port, ev'.dpid, row.port)
                  dt == row.timestamp - p0[1]
              IN /\ row.timestamp = clock
                 /\ Baseline(prev_port', ev'.dpid, row.port) =
                       <<clock, row.rx_bytes, row.tx_bytes, row.rx_pkts, row.tx_pkts>>
                 /\ (HasBaseline(prev_port, ev'.dpid, row.port) /\ dt > 0) =>
                       /\ IsQuotient(rate.bps_rx, 8 * (row.rx_bytes - p0[2]), dt)
                       /\ IsQuotient(rate.bps_tx, 8 * (row.tx_bytes - p0[3]), dt)
                       /\ IsQuotient(rate.pps_rx, row.rx_pkts - p0[4], dt)
                       /\ IsQuotient(rate.pps_tx, row.tx_pkts - p0[5], dt)]_vars

\* rx 1000 bytes at t = 0, then 3000 bytes at t = 2: rx_bps = 8000.00,
\* rx_pps = 10.00
C18_Witness ==
    /\ ev.type = "port_stats"
    /\ clock = 2
    /\ Len(sent) = 1
    /\ sent[1].rows[1].port = 1
    /\ sent[1].rows[1].rx_bytes = 3000
    /\ IsQuotient(ev.rates[1].bps_rx, 8000, 1)
    /\ IsQuotient(ev.rates[1].pps_rx, 10, 1)
    /\ sent[1].rows[1].rx_bps = [hundredths |-> 800000, e9 |-> 0]
    /\ sent[1].rows[1].rx_pps = [hundredths |-> 1000, e9 |-> 0]
    /\ sent[1].rows[1].tx_bps = RateZero

(* C19, as stated: a sample with no predecessor for its (dpid, port) writes  *)
(* nothing to the sink: every row written is for a port that had a baseline. *)
C19_FirstSampleWritesNothing ==
    [][ev'.type = "port_stats" =>
          \A i \in 1..Len(RowsWritten(sent')) :
              HasBaseline(prev_port, ev'.dpid, RowsWritten(sent')[i].port)]_vars

\* what the code does with a first sample: a row with all four rates 0.0
C19_FirstSampleRowOfZeros ==
    [][ev'.type = "port_stats" =>
          \A i \in 1..Len(RowsWritten(sent')) :
              LET row == RowsWritten(sent')[i]
              IN ~HasBaseline(prev_port, ev'.dpid, row.port) =>
                    /\ row.rx_bps = RateZero /\ row.tx_bps = RateZero
                    /\ row.rx_pps = RateZero /\ row.tx_pps = RateZero]_vars

(* C20: VIP packet-ins of several switch connections, handled in any order,  *)
(* each take the backend under the pointer and advance the pointer by one:   *)
(* no two consecutive selections return the same backend, none is skipped    *)
(* (each selection is the successor of the one before, whichever switch      *)
(* asked), and the pointer equals the number of selections made modulo the   *)
(* pool size, so no update is lost.                                          *)
C20_AtomicRotation ==
    /\ [](LET N == Len(SERVER_POOL)
          IN /\ N >= 2
             /\ rr_index = Len(chosen) % N
             /\ \A k \in 1..(Len(chosen) - 1) :
                   /\ chosen[k + 1] # chosen[k]
                   /\ chosen[k + 1] = (chosen[k] + 1) % N)
    /\ [][IsVipPacketIn(ev') =>
             /\ chosen' = Append(chosen, rr_index)
             /\ rr_index' = (rr_index + 1) % Len(SERVER_POOL)]_vars

\* four selections, of which switch 1 and switch 2 each made at least one:
\* both hold the NAT rule of a selection of backend 1
C20_Witness ==
    /\ ev.type = "packet_in"
    /\ ev.dpid = 2
    /\ ev.pkt = PktAtoVip
    /\ chosen = <<0, 1, 0, 1>>
    /\ rr_index = 0
    /\ \E r \in flowTable[1] : r.kind = "vip_fwd"
    /\ \E r \in flowTable[2] : r.kind = "vip_fwd"

\* the entries of table with the (match, priority) of mod
SameKey(table, mod) == {r \in table : r.match = mod.match /\ r.priority = mod.priority}

C22_FirstPacketReemitted ==
    [][(IsVipPacketIn(ev') /\ SelectedMac(ip2mac') # NoMac) =>
          LET outs == SelectSeq(LbMsgs(sent'), LAMBDA m : m.type = "packet_out")
              fwd == CHOOSE m \in FlowMods(sent') : m.kind = "vip_fwd"
          IN /\ Len(outs) = 1
             /\ \E m \in FlowMods(sent') : m.kind = "vip_fwd"
             /\ outs[1].out.data = ev'.pkt
             /\ outs[1].out.in_port = ev'.in_port
             /\ Len(outs[1].out.actions) = 3
             /\ outs[1].out.actions[1] = fwd.actions[1]
             /\ outs[1].out.actions[2] = fwd.actions[2]
             /\ outs[1].out.actions[1] = OFPActionSetField("ipv4_dst", SelectedServer.ip)
             /\ outs[1].out.actions[2] = OFPActionSetField("eth_dst", SelectedMac(ip2mac'))
             /\ outs[1].out.actions[3] = OFPActionOutput(OFPP_FLOOD)
             /\ LbMsgs(sent')[Len(LbMsgs(sent'))] = outs[1]]_vars

\* the first packet of a flow to the VIP on switch 1, re-emitted toward
\* backend 10.0.1.2
C22_Witness ==
    /\ ev.type = "packet_in"
    /\ ev.dpid = 1
    /\ ev.pkt = PktAtoVip
    /\ ev.in_port = 1
    /\ \E i \in 1..Len(sent) :
          /\ sent[i].type = "packet_out"
          /\ sent[i].app = "lb"
          /\ Len(sent[i].out.actions) = 3
          /\ sent[i].out.actions[1].value = IpB
          /\ sent[i].out.actions[2].value = MacB
          /\ sent[i].out.actions[3].port = OFPP_FLOOD

\* the positions of body whose entry has a priority other than 0
Emitted(body) == {i \in 1..Len(body) : body[i].priority # 0}

(* C23: a flow-stats reply emits exactly its entries of priority other than  *)
(* 0, in the order of the reply, each as (cookie, priority, packet count,    *)
(* byte count, match) with the dpid and the time of the reply, in one write  *)
(* to the dpid's flow_stats sink; a reply with no such entry writes nothing. *)
C23_FlowStatsEmitted ==
    [][ev'.type = "flow_stats" =>
          LET body == ev'.body
              rows == IF sent' = <<>> THEN <<>> ELSE sent'[1].rows
          IN /\ Len(sent') <= 1
             /\ (sent' = <<>>) <=> (Emitted(body) = {})
             /\ sent' # <<>> => sent'[1].kind = "flow_stats" /\ sent'[1].dpid = ev'.dpid
             /\ Len(rows) = Cardinality(Emitted(body))
             /\ \A i \in Emitted(body) :
                   LET k == Cardinality({j \in Emitted(body) : j <= i})
                   IN /\ rows[k].cookie = body[i].cookie
                      /\ rows[k].priority = body[i].priority
                      /\ rows[k].packet_count = body[i].packet_count
                      /\ rows[k].byte_count = body[i].byte_count
                      /\ rows[k].match = body[i].match
                      /\ rows[k].dpid = ev'.dpid
                      /\ rows[k].timestamp = clock
             /\ prev_port' = prev_port]_vars

\* a reply with a table-miss entry between three others: three rows
C23_Witness ==
    /\ ev.type = "flow_stats"
    /\ Len(ev.body) = 4
    /\ ev.body[2].priority = 0
    /\ Len(sent) = 1
    /\ Len(sent[1].rows) = 3
    /\ sent[1].rows[1].priority = 100
    /\ sent[1].rows[2].priority = 10
    /\ sent[1].rows[3].priority = 1

\* a reply holding only table-miss entries: nothing is written
C23_WitnessNoWrite ==
    /\ ev.type = "flow_stats"
    /\ ev.body = <<FlowStatMiss, FlowStatMiss>>
    /\ sent = <<>>

\* the requests of msgs addressed to dpid d, as their types
RequestsTo(msgs, d) ==
    LET mine == SelectSeq(msgs, LAMBDA m : m.dpid = d)
    IN [i \in 1..Len(mine) |-> mine[i].type]

(* C24: the polling task never leaves its loop, so a tick is always to come; *)
(* on every tick it sends a port-stats and then a flow-stats request to      *)
(* every switch of the registry and to no other, except that a request whose *)
(* send fails ends the requests of that switch for this tick only: the       *)
(* switches after it in the same tick are requested all the same.            *)
C24_PollEveryRegisteredSwitch ==
    /\ [](monitor_alive /\ ENABLED MonitorPoll)
    /\ [][ev'.type = "poll" =>
             \A d \in Dpids :
                 /\ ~DictHas(datapaths, d) => RequestsTo(sent', d) = <<>>
                 /\ (DictHas(datapaths, d) /\ ev'.fails[d] = "none") =>
                       RequestsTo(sent', d) = <<"port_stats_request", "flow_stats_request">>
                 /\ (DictHas(datapaths, d) /\ ev'.fails[d] = "flow") =>
                       RequestsTo(sent', d) = <<"port_stats_request">>
                 /\ (DictHas(datapaths, d) /\ ev'.fails[d] = "port") =>
                       RequestsTo(sent', d) = <<>>
                 /\ \A i \in 1..Len(sent') :
                       sent'[i].dpid = d => sent'[i].dp = DictGet(datapaths, d, 0)]_vars

\* a tick on which the port-stats request to switch 1 failed: switch 2 still
\* got both requests
C24_Witness ==
    /\ ev.type = "poll"
    /\ ev.fails[1] = "port"
    /\ DictHas(datapaths, 1)
    /\ DictHas(datapaths, 2)
    /\ RequestsTo(sent, 1) = <<>>
    /\ RequestsTo(sent, 2) = <<"port_stats_request", "flow_stats_request">>
    /\ monitor_alive

(* C25: deferred NAT eventually happens. For every backend of the pool, once *)
(* a packet with that backend's IP (the address of the subnet-1 host the     *)
(* pool entry stands for) as IPv4 source or ARP sender has been observed,    *)
(* i.e. the address cache holds that IP before the packet-in, every decision *)
(* that selects the backend installs the forward and the reverse NAT rule    *)
(* instead of flooding.                                                      *)
C25_DeferredNatHappens ==
    [][(IsVipPacketIn(ev') /\ DictHas(ip2mac, BackendHostIp[rr_index + 1])) =>
          /\ \E m \in FlowMods(LbMsgs(sent')) : m.kind = "vip_fwd"
          /\ \E m \in FlowMods(LbMsgs(sent')) : m.kind = "vip_rev"
          /\ \A o \in PacketOuts(sent', "lb") : ~IsFlood(o)]_vars

\* the same for the pool entries whose configured IP is an address a packet
\* can carry: holds, the second backend resolves once 10.0.1.2 is observed
C25_ResolvableBackendGetsNat ==
    [][(IsVipPacketIn(ev') /\ DictHas(ip2mac, SelectedServer.ip)) =>
          /\ \E m \in FlowMods(LbMsgs(sent')) : m.kind = "vip_fwd"
          /\ \E m \in FlowMods(LbMsgs(sent')) : m.kind = "vip_rev"]_vars

\* the backend a forward rule rewrites to, and the backend and the client a
\* reverse rule matches
FwdBackend(r) == r.actions[1].value
RevBackend(r) == DictGet(r.match, "ipv4_src", "")
RevClient(r) == DictGet(r.match, "ipv4_dst", "")

NewestSession(d) == sessions[d].joined
\* a step in which a session of d older than the newest one leaves
OlderSessionLeaves(d) ==
    \E n \in sessions[d].live \ sessions'[d].live : n < NewestSession(d)

C27_OverlapReached ==
    /\ sessions[1].joined = 2
    /\ sessions[1].live = {1, 2}
    /\ DictHas(prev_port, 1)

(* C28: MAC learning is isolated per switch. A packet-in from switch A leaves *)
(* the learning table of every other switch unchanged and changes A's table  *)
(* by the source entry only; the learning engine's decision uses A's own     *)
(* table: it installs a rule (output to A's port for the destination) only   *)
(* when A itself knows the destination, and floods otherwise, whatever the   *)
(* other switches have learned.                                              *)
C28_LearningIsolatedPerSwitch ==
    [][ev'.type = "packet_in" =>
          LET d == ev'.dpid
              pkt == ev'.pkt
              own == mac_to_port[d]
              lsm == SelectSeq(sent', LAMBDA m : m.app = "learning")
          IN /\ \A x \in Dpids \ {d} : mac_to_port'[x] = mac_to_port[x]
             /\ LsLearns(pkt) =>
                   /\ mac_to_port'[d] = DictSet(own, pkt.src, ev'.in_port)
                   /\ Len(lsm) = 1
                   /\ IF pkt.dst = pkt.src \/ DictHas(own, pkt.dst)
                      THEN /\ lsm[1].type = "flow_mod"
                           /\ lsm[1].mod.actions =
                                 <<OFPActionOutput(IF pkt.dst = pkt.src THEN ev'.in_port
                                                   ELSE DictGet(own, pkt.dst, 0))>>
                      ELSE lsm[1].type = "packet_out" /\ IsFlood(lsm[1].out)
             /\ ~LsLearns(pkt) => mac_to_port'[d] = own]_vars

\* switch 2 floods a packet for B, which only switch 1 has learned
C28_Witness ==
    /\ ev.type = "packet_in"
    /\ ev.dpid = 2
    /\ ev.pkt = PktAtoB
    /\ DictHas(mac_to_port[1], MacB)
    /\ ~DictHas(mac_to_port[2], MacB)
    /\ DictHas(mac_to_port[2], MacA)
    /\ \E i \in 1..Len(sent) :
          sent[i].app = "learning" /\ sent[i].type = "packet_out" /\ IsFlood(sent[i].out)

====
